---- MODULE Spec2Model ----
(***************************************************************************)
(* Model of src/Angela_app.py: the field rule engine, the date, amount and *)
(* client-name normalisers, and the three-phase consolidation run of       *)
(* main().  Python strings are sequences of one-character strings.         *)
(***************************************************************************)
EXTENDS Integers, Sequences, FiniteSets, TLC

VARIABLES
    uploaded_pdfs,    \* main: the ordered list of uploaded primary documents
    uploaded_docs,    \* main: the ordered list of uploaded secondary documents
    all_data,         \* main: merge key -> record
    pdf_client_keys,  \* main: registered keys, in registration order
    phase,            \* main: position in the run ("pdf", "docx", "done")
    idx,              \* main: index of the next document of the running loop
    df,               \* main: the emitted rows (the final DataFrame)
    text,             \* FacturaExtractor.text, as what re.search finds in it
    locale_es,        \* whether locale.setlocale(LC_TIME, es_ES) succeeded
    record,           \* results of extract_all on text
    found,            \* results of _try_find on text
    raw,              \* a raw client capture
    cleaned,          \* results of successive runs of the cleaning sequence
    x_total,          \* argument of clean_total
    pesos             \* results of clean_total

vars == <<uploaded_pdfs, uploaded_docs, all_data, pdf_client_keys, phase, idx,
          df, text, locale_es, record, found, raw, cleaned, x_total, pesos>>

mergeVars == <<uploaded_pdfs, uploaded_docs, all_data, pdf_client_keys, phase,
               idx, df>>
extractVars == <<text, locale_es, record, found>>
cleanVars == <<raw, cleaned>>
totalVars == <<x_total, pesos>>

-----------------------------------------------------------------------------
(* Python str operations *)

LOWER == <<"a", "b", "c", "d", "e", "f", "g", "h", "i", "j", "k", "l", "m",
           "n", "o", "p", "q", "r", "s", "t", "u", "v", "w", "x", "y", "z",
           "ñ", "ó", "é">>
UPPER == <<"A", "B", "C", "D", "E", "F", "G", "H", "I", "J", "K", "L", "M",
           "N", "O", "P", "Q", "R", "S", "T", "U", "V", "W", "X", "Y", "Z",
           "Ñ", "Ó", "É">>
DIGITS == <<"0", "1", "2", "3", "4", "5", "6", "7", "8", "9">>

UpperChar(c) ==
    IF \E k \in DOMAIN LOWER : LOWER[k] = c
    THEN UPPER[CHOOSE k \in DOMAIN LOWER : LOWER[k] = c]
    ELSE c

LowerChar(c) ==
    IF \E k \in DOMAIN UPPER : UPPER[k] = c
    THEN LOWER[CHOOSE k \in DOMAIN UPPER : UPPER[k] = c]
    ELSE c

\* str.upper(), str.lower()
Upper(s) == [k \in DOMAIN s |-> UpperChar(s[k])]
Lower(s) == [k \in DOMAIN s |-> LowerChar(s[k])]

\* \s, restricted to the characters of the model
IsSpace(c) == c = " "

IsDigit(c) == \E k \in DOMAIN DIGITS : DIGITS[k] = c

\* str.strip()
Strip(s) ==
    IF \A k \in DOMAIN s : IsSpace(s[k])
    THEN <<>>
    ELSE LET first == CHOOSE k \in DOMAIN s :
                          /\ ~IsSpace(s[k])
                          /\ \A j \in 1..(k - 1) : IsSpace(s[j])
             last  == CHOOSE k \in DOMAIN s :
                          /\ ~IsSpace(s[k])
                          /\ \A j \in (k + 1)..Len(s) : IsSpace(s[j])
         IN  SubSeq(s, first, last)

\* str.replace(old, new) for a one-character old and a new of any length
RECURSIVE Replace(_, _, _)
Replace(s, old, new) ==
    IF s = <<>> THEN <<>>
    ELSE (IF Head(s) = old THEN new ELSE <<Head(s)>>)
         \o Replace(Tail(s), old, new)

\* str.split(sep)[0]: the part before the first sep, the whole when there is none
SplitFirst(s, sep) ==
    IF \E k \in DOMAIN s : s[k] = sep
    THEN LET cut == CHOOSE k \in DOMAIN s :
                        /\ s[k] = sep
                        /\ \A j \in 1..(k - 1) : s[j] # sep
         IN  SubSeq(s, 1, cut - 1)
    ELSE s

\* str.zfill(width)
RECURSIVE ZFill(_, _)
ZFill(s, width) == IF Len(s) >= width THEN s ELSE ZFill(<<"0">> \o s, width)

-----------------------------------------------------------------------------
(* Pieces of regular-expression matching used by the cleaning sequence.   *)
(* Positions are 1-based; a matcher returns the position after the match, *)
(* or 0 when the text does not match there.                               *)

\* a literal under re.IGNORECASE, at position p
LitAt(s, p, lit) ==
    IF /\ p >= 1
       /\ p + Len(lit) - 1 <= Len(s)
       /\ \A k \in DOMAIN lit : LowerChar(s[p + k - 1]) = LowerChar(lit[k])
    THEN p + Len(lit)
    ELSE 0

\* c? (greedy) at position p, p >= 1
OptAt(s, p, c) == IF p <= Len(s) /\ s[p] = c THEN p + 1 ELSE p

\* a greedy run X* at position p, p >= 1, of the characters in class
RECURSIVE RunAt(_, _, _)
RunAt(s, p, class) ==
    IF p <= Len(s) /\ s[p] \in class THEN RunAt(s, p + 1, class) ELSE p

SPACES == {" "}

\* SEÑOR\s*\(?ES\)?\s*:\s*  at position 1
SenorAt(s) ==
    LET p1 == LitAt(s, 1, <<"S", "E", "Ñ", "O", "R">>)
        p2 == OptAt(s, RunAt(s, p1, SPACES), "(")
        p3 == LitAt(s, p2, <<"E", "S">>)
        p4 == RunAt(s, OptAt(s, p3, ")"), SPACES)
        p5 == LitAt(s, p4, <<":">>)
    IN  IF p1 = 0 THEN 0
        ELSE IF p3 = 0 THEN 0
        ELSE IF p5 = 0 THEN 0
        ELSE RunAt(s, p5, SPACES)

\* SR\.\(?A\)?[\s:]*  at position 1
SrAt(s) ==
    LET p1 == LitAt(s, 1, <<"S", "R", ".">>)
        p2 == LitAt(s, OptAt(s, p1, "("), <<"A">>)
    IN  IF p1 = 0 THEN 0
        ELSE IF p2 = 0 THEN 0
        ELSE RunAt(s, OptAt(s, p2, ")"), SPACES \cup {":"})

\* re.sub(r"^(SEÑOR\s*\(?ES\)?\s*:\s*|SR\.\(?A\)?[\s:]*)", "", s, re.IGNORECASE)
StripHonorific(s) ==
    LET e == IF SenorAt(s) # 0 THEN SenorAt(s) ELSE SrAt(s)
    IN  IF e = 0 THEN s ELSE SubSeq(s, e, Len(s))

\* \s*R\.?U\.?T\.  at position p
RutAt(s, p) ==
    LET p1 == LitAt(s, RunAt(s, p, SPACES), <<"R">>)
        p2 == LitAt(s, OptAt(s, p1, "."), <<"U">>)
        p3 == LitAt(s, OptAt(s, p2, "."), <<"T">>)
    IN  IF p1 = 0 THEN 0
        ELSE IF p2 = 0 THEN 0
        ELSE IF p3 = 0 THEN 0
        ELSE LitAt(s, p3, <<".">>)

\* re.sub(r"\s*R\.?U\.?T\..*$", "", s, re.IGNORECASE): the leftmost match runs
\* to the end of the (single-line) string
StripRut(s) ==
    IF \E p \in DOMAIN s : RutAt(s, p) # 0
    THEN LET at == CHOOSE p \in DOMAIN s :
                       /\ RutAt(s, p) # 0
                       /\ \A q \in 1..(p - 1) : RutAt(s, q) = 0
         IN  SubSeq(s, 1, at - 1)
    ELSE s

\* the cleaning sequence of _find_client_in_text on the capture of a match
CleanClient(group1) ==
    LET r0 == Strip(group1)
        r1 == Strip(StripHonorific(r0))
        r2 == Strip(StripRut(r1))
    IN  Strip(Replace(r2, ":", <<>>))

-----------------------------------------------------------------------------
(* Sentinel vocabulary *)

NOT_FOUND == <<"N", "o", " ", "e", "n", "c", "o", "n", "t", "r", "a", "d", "o">>
NA == <<"N", "/", "A">>
NO_DOCX == <<"N", "o", " ", "D", "O", "C", "X", " ", "a", "d", "j", "u", "n",
             "t", "o">>
DOC_GENERICO == <<"D", "o", "c", "u", "m", "e", "n", "t", "o", " ", "G", "e",
                  "n", "é", "r", "i", "c", "o", " ", "(", "D", "e", "f", "a",
                  "u", "l", "t", ")">>

-----------------------------------------------------------------------------
(* Amount normaliser: clean_total.  A Python float is kept exactly, as     *)
(* mant / 10^exp with mant not a multiple of 10 unless exp = 0, so that    *)
(* equal numbers are equal values.                                         *)

DigitVal(c) == (CHOOSE k \in DOMAIN DIGITS : DIGITS[k] = c) - 1

RECURSIVE ToInt(_)
ToInt(s) ==
    IF s = <<>> THEN 0
    ELSE 10 * ToInt(SubSeq(s, 1, Len(s) - 1)) + DigitVal(s[Len(s)])

RECURSIVE Pow10(_)
Pow10(n) == IF n <= 0 THEN 1 ELSE 10 * Pow10(n - 1)

RECURSIVE Normalize(_, _)
Normalize(mant, exp) ==
    IF exp > 0 /\ mant % 10 = 0 THEN Normalize(mant \div 10, exp - 1)
    ELSE [kind |-> "float", str |-> <<>>, mant |-> mant, exp |-> exp]

StrValue(s) == [kind |-> "str", str |-> s, mant |-> 0, exp |-> 0]

\* float(s) for s made of the characters a TOTAL capture ([\d\.,]+) or a
\* sentinel can hold: digits with at most one "." and at least one digit parse,
\* everything else raises ValueError
FloatParses(s) ==
    /\ \A k \in DOMAIN s : IsDigit(s[k]) \/ s[k] = "."
    /\ Cardinality({k \in DOMAIN s : s[k] = "."}) <= 1
    /\ \E k \in DOMAIN s : IsDigit(s[k])

FloatOf(s) ==
    LET dot  == IF \E k \in DOMAIN s : s[k] = "."
                THEN CHOOSE k \in DOMAIN s : s[k] = "."
                ELSE Len(s) + 1
        ip   == SubSeq(s, 1, dot - 1)
        fp   == SubSeq(s, dot + 1, Len(s))
    IN  Normalize(ToInt(ip \o fp), Len(fp))

clean_total_keep_dots(x) ==
    IF x \in {NOT_FOUND, NA, DOC_GENERICO, NO_DOCX} THEN StrValue(x)
    ELSE LET cleaned_x == Replace(x, ",", <<".">>)
         IN  IF FloatParses(cleaned_x) THEN FloatOf(cleaned_x) ELSE StrValue(x)

clean_total(x) ==
    IF x \in {NOT_FOUND, NA, DOC_GENERICO, NO_DOCX} THEN StrValue(x)
    ELSE LET cleaned_x == Replace(Replace(x, ".", <<>>), ",", <<".">>)
         IN  IF FloatParses(cleaned_x) THEN FloatOf(cleaned_x) ELSE StrValue(x)

-----------------------------------------------------------------------------
(* Field rule engine.  A regular expression is named by its field and its  *)
(* place in the field's list; a text is what re.search finds in it for     *)
(* each of them: text[field][k] is the match of the k-th pattern, None     *)
(* when it does not match.                                                 *)

Pat(field, k, fmt) == [regex |-> <<field, k>>, format |-> fmt]

EXTRACTION_RULES ==
    [CLIENT |-> <<Pat("CLIENT", 1, ""), Pat("CLIENT", 2, ""),
                  Pat("CLIENT", 3, "")>>,
     NUMBER |-> <<Pat("NUMBER", 1, ""), Pat("NUMBER", 2, ""),
                  Pat("NUMBER", 3, "")>>,
     DATE |-> <<Pat("DATE", 1, "LONG_FORMAT"), Pat("DATE", 2, "DD_MM_YY")>>,
     TOTAL |-> <<Pat("TOTAL", 1, ""), Pat("TOTAL", 2, "")>>,
     DESCRIPTION |-> <<Pat("DESCRIPTION", 1, ""), Pat("DESCRIPTION", 2, ""),
                       Pat("DESCRIPTION", 3, ""), Pat("DESCRIPTION", 4, ""),
                       Pat("DESCRIPTION", 5, "")>>]

FIELDS == {"CLIENT", "NUMBER", "DATE", "TOTAL", "DESCRIPTION"}

None == [hit |-> FALSE, groups |-> <<>>]
Hit(groups) == [hit |-> TRUE, groups |-> groups]
NoPattern == [regex |-> <<>>, format |-> ""]

\* re.search(regex, text, flags); every regex is always searched with the
\* same flags
re_search(regex, t) == t[regex[1]][regex[2]]

\* match.group(1).strip() if len(match.groups()) > 0 else ""
Group1(match) ==
    IF Len(match.groups) > 0 THEN Strip(match.groups[1]) ELSE <<>>

RECURSIVE try_last(_, _, _)
try_last(patterns, k, t) ==
    IF k < 1
    THEN [result |-> NOT_FOUND, match |-> None, pattern |-> NoPattern]
    ELSE LET match == re_search(patterns[k].regex, t)
         IN  IF match.hit
             THEN [result |-> Group1(match), match |-> match,
                   pattern |-> patterns[k]]
             ELSE try_last(patterns, k - 1, t)

\* the loop of _try_find from the k-th pattern on
RECURSIVE try_from(_, _, _)
try_from(patterns, k, t) ==
    IF k > Len(patterns)
    THEN [result |-> NOT_FOUND, match |-> None, pattern |-> NoPattern]
    ELSE LET match == re_search(patterns[k].regex, t)
         IN  IF match.hit
             THEN [result |-> Group1(match), match |-> match,
                   pattern |-> patterns[k]]
             ELSE try_from(patterns, k + 1, t)

_try_find_last_wins(self_text, field_name) ==
    try_last(EXTRACTION_RULES[field_name],
             Len(EXTRACTION_RULES[field_name]), self_text)

_try_find_none(self_text, field_name) ==
    LET r == try_from(EXTRACTION_RULES[field_name], 1, self_text)
    IN  IF r.match.hit THEN r ELSE [r EXCEPT !.result = <<>>]

_try_find(self_text, field_name) ==
    try_from(EXTRACTION_RULES[field_name], 1, self_text)

\* the loop of _find_client_in_text from the k-th pattern on
RECURSIVE find_client_from(_, _, _)
find_client_from(patterns, k, t) ==
    IF k > Len(patterns) THEN NOT_FOUND
    ELSE LET match == re_search(patterns[k].regex, t)
         IN  IF match.hit
             THEN CleanClient(IF Len(match.groups) > 0 THEN match.groups[1]
                              ELSE <<>>)
             ELSE find_client_from(patterns, k + 1, t)

_find_client_in_text(t, rules) == find_client_from(rules["CLIENT"], 1, t)

-----------------------------------------------------------------------------
(* Date normaliser *)

MONTHS_ES ==
    << <<"e", "n", "e", "r", "o">>, <<"f", "e", "b", "r", "e", "r", "o">>,
       <<"m", "a", "r", "z", "o">>, <<"a", "b", "r", "i", "l">>,
       <<"m", "a", "y", "o">>, <<"j", "u", "n", "i", "o">>,
       <<"j", "u", "l", "i", "o">>, <<"a", "g", "o", "s", "t", "o">>,
       <<"s", "e", "p", "t", "i", "e", "m", "b", "r", "e">>,
       <<"o", "c", "t", "u", "b", "r", "e">>,
       <<"n", "o", "v", "i", "e", "m", "b", "r", "e">>,
       <<"d", "i", "c", "i", "e", "m", "b", "r", "e">> >>

MONTHS_EN ==
    << <<"J", "a", "n", "u", "a", "r", "y">>,
       <<"F", "e", "b", "r", "u", "a", "r", "y">>,
       <<"M", "a", "r", "c", "h">>, <<"A", "p", "r", "i", "l">>,
       <<"M", "a", "y">>, <<"J", "u", "n", "e">>, <<"J", "u", "l", "y">>,
       <<"A", "u", "g", "u", "s", "t">>,
       <<"S", "e", "p", "t", "e", "m", "b", "e", "r">>,
       <<"O", "c", "t", "o", "b", "e", "r">>,
       <<"N", "o", "v", "e", "m", "b", "e", "r">>,
       <<"D", "e", "c", "e", "m", "b", "e", "r">> >>

\* MONTH_MAPPING.get(key, default)
MONTH_MAPPING_get(key, default) ==
    IF \E k \in DOMAIN MONTHS_ES : MONTHS_ES[k] = key
    THEN MONTHS_EN[CHOOSE k \in DOMAIN MONTHS_ES : MONTHS_ES[k] = key]
    ELSE default

ERROR_PARSEO == <<"E", "r", "r", "o", "r", " ", "d", "e", " ", "F", "o", "r",
                  "m", "a", "t", "o", " ", "(", "P", "a", "r", "s", "e", "o",
                  ")">>
ERROR_LARGO == <<"E", "r", "r", "o", "r", " ", "d", "e", " ", "F", "o", "r",
                 "m", "a", "t", "o", " ", "(", "L", "a", "r", "g", "o", " ",
                 "F", "a", "l", "l", "i", "d", "o", ")">>
ERROR_CORTO == <<"E", "r", "r", "o", "r", " ", "d", "e", " ", "F", "o", "r",
                 "m", "a", "t", "o", " ", "(", "C", "o", "r", "t", "o", " ",
                 "F", "a", "l", "l", "i", "d", "o", ")">>

AllDigits(s) == \A k \in DOMAIN s : IsDigit(s[k])

IsLeap(y) == (y % 4 = 0 /\ y % 100 # 0) \/ y % 400 = 0

DaysInMonth(m, y) ==
    IF m = 2 THEN (IF IsLeap(y) THEN 29 ELSE 28)
    ELSE IF m \in {4, 6, 9, 11} THEN 30 ELSE 31

\* the month names %B matches under the LC_TIME locale in force: the Spanish
\* ones when setlocale found a Spanish locale, the C locale's otherwise
LocaleMonths == IF locale_es THEN MONTHS_ES ELSE MONTHS_EN

\* %d: 3[0-1]|[1-2]\d|0[1-9]|[1-9]  (0 when the directive does not match)
DirectiveDay(s) ==
    IF Len(s) \in {1, 2} /\ AllDigits(s) /\ ToInt(s) \in 1..31
    THEN ToInt(s) ELSE 0

\* %m: 1[0-2]|0[1-9]|[1-9]
DirectiveMonth(s) ==
    IF Len(s) \in {1, 2} /\ AllDigits(s) /\ ToInt(s) \in 1..12
    THEN ToInt(s) ELSE 0

\* %B: a month name of the locale, in any case
DirectiveMonthName(s) ==
    IF \E k \in DOMAIN LocaleMonths : Lower(LocaleMonths[k]) = Lower(s)
    THEN CHOOSE k \in DOMAIN LocaleMonths : Lower(LocaleMonths[k]) = Lower(s)
    ELSE 0

\* %Y: \d\d\d\d  (-1 when the directive does not match)
DirectiveYear(s) == IF Len(s) = 4 /\ AllDigits(s) THEN ToInt(s) ELSE -1

NoDate == [ok |-> FALSE, day |-> 0, month |-> 0, year |-> 0]

MakeDateWrapping(d, m, y) ==
    IF d >= 1 /\ m >= 1 /\ y >= 1
    THEN IF d <= DaysInMonth(m, y)
         THEN [ok |-> TRUE, day |-> d, month |-> m, year |-> y]
         ELSE [ok |-> TRUE, day |-> d - DaysInMonth(m, y),
               month |-> (m % 12) + 1, year |-> y]
    ELSE NoDate

\* datetime(year, month, day) of the parsed directives; ValueError (ok FALSE)
\* when a directive did not match or the date does not exist
MakeDate(d, m, y) ==
    IF d >= 1 /\ m >= 1 /\ y >= 1 /\ d <= DaysInMonth(m, y)
    THEN [ok |-> TRUE, day |-> d, month |-> m, year |-> y]
    ELSE NoDate

\* datetime.strptime(f"{day}-{month}-{year}", '%d-%m-%Y')
strptime_dmY(day, month, year) ==
    MakeDate(DirectiveDay(day), DirectiveMonth(month), DirectiveYear(year))

\* datetime.strptime(f"{day} de {month} de {year}", '%d de %B de %Y') and
\* datetime.strptime(f"{day} of {month} of {year}", '%d of %B of %Y')
strptime_dBY(day, month, year) ==
    MakeDate(DirectiveDay(day), DirectiveMonthName(month), DirectiveYear(year))

TwoDigits(n) == <<DIGITS[((n \div 10) % 10) + 1], DIGITS[(n % 10) + 1]>>

\* date_obj.strftime('%d-%m-%y')
strftime_dmy(date) ==
    TwoDigits(date.day) \o <<"-">> \o TwoDigits(date.month) \o <<"-">>
        \o TwoDigits(date.year % 100)

_parse_date(date_match, date_format_type) ==
    IF date_format_type = "LONG_FORMAT"
    THEN LET day      == date_match.groups[1]
             month_es == date_match.groups[2]
             year     == date_match.groups[3]
             first    == strptime_dBY(day, month_es, year)
             month_en == MONTH_MAPPING_get(Lower(month_es), month_es)
             second   == strptime_dBY(day, month_en, year)
         IN  IF first.ok THEN strftime_dmy(first)
             ELSE IF second.ok THEN strftime_dmy(second)
             ELSE ERROR_LARGO
    ELSE IF date_format_type = "DD_MM_YY"
    THEN LET day   == ZFill(date_match.groups[1], 2)
             month == ZFill(date_match.groups[2], 2)
             year  == IF Len(date_match.groups[3]) = 2
                      THEN <<"2", "0">> \o date_match.groups[3]
                      ELSE date_match.groups[3]
             date_obj == strptime_dmY(day, month, year)
         IN  IF date_obj.ok THEN strftime_dmy(date_obj) ELSE ERROR_CORTO
    ELSE ERROR_PARSEO

extract_all(self_text) ==
    LET extracted_name == _find_client_in_text(self_text, EXTRACTION_RULES)
        date_found     == _try_find(self_text, "DATE")
        extracted_date ==
            IF date_found.match.hit /\ date_found.pattern # NoPattern
            THEN _parse_date(date_found.match, date_found.pattern.format)
            ELSE NOT_FOUND
        description    == _try_find(self_text, "DESCRIPTION").result
    IN  [CLIENT |-> extracted_name,
         DATE |-> extracted_date,
         NUMBER |-> _try_find(self_text, "NUMBER").result,
         DOLLARS |-> <<>>,
         PESOS |-> _try_find(self_text, "TOTAL").result,
         EUROS |-> <<>>,
         DESCRIPTION |-> IF description = NOT_FOUND THEN DOC_GENERICO
                         ELSE description]

-----------------------------------------------------------------------------
(* Bounded sets of strings *)

RECURSIVE StringsUpTo(_, _)
StringsUpTo(alphabet, n) ==
    IF n = 0 THEN {<<>>}
    ELSE LET shorter == StringsUpTo(alphabet, n - 1)
         IN  shorter \cup {Append(s, c) : s \in shorter, c \in alphabet}

RECURSIVE Flatten(_)
Flatten(ss) == IF ss = <<>> THEN <<>> ELSE Head(ss) \o Flatten(Tail(ss))

-----------------------------------------------------------------------------
(* Idle values of the variables a specification does not use *)

NoText == <<>>
IdleMerge ==
    /\ uploaded_pdfs = <<>>
    /\ uploaded_docs = <<>>
    /\ all_data = <<>>
    /\ pdf_client_keys = <<>>
    /\ phase = "idle"
    /\ idx = 0
    /\ df = <<>>
IdleExtract == text = NoText /\ locale_es = FALSE /\ record = <<>> /\ found = <<>>
IdleClean == raw = <<>> /\ cleaned = <<>>
IdleTotal == x_total = <<>> /\ pesos = <<>>

-----------------------------------------------------------------------------
(* The cleaning sequence on raw captures, run and re-run on its own output *)

MaxChunks == 4
MaxRuns == 2

CHUNKS == { <<"S", "E", "Ñ", "O", "R">>, <<"E", "S">>, <<"(">>, <<":">>,
            <<" ">>, <<"s", "r", ".">>, <<"A">>, <<"R">>, <<"U", "T", ".">>,
            <<"X">> }

RawCaptures == {Flatten(cs) : cs \in StringsUpTo(CHUNKS, MaxChunks)}

InitClean ==
    /\ raw \in RawCaptures
    /\ cleaned = <<>>
    /\ IdleMerge /\ IdleExtract /\ IdleTotal

Clean ==
    /\ Len(cleaned) < MaxRuns
    /\ cleaned' = Append(cleaned,
                         CleanClient(IF cleaned = <<>> THEN raw
                                     ELSE cleaned[Len(cleaned)]))
    /\ UNCHANGED <<raw, mergeVars, extractVars, totalVars>>

NextClean == Clean

SpecClean == InitClean /\ [][NextClean]_vars

\* C7: the cleaning sequence is idempotent: run on its own output, it returns
\* that output unchanged.
CleanIdempotent == Len(cleaned) >= 2 => cleaned[2] = cleaned[1]

-----------------------------------------------------------------------------
(* clean_total on the values the PESOS column can hold *)

MaxAmountLen == 5

AMOUNT_CHARS == {"0", "1", "7", ".", ","}

AMOUNT_EXAMPLES ==
    { <<"1", "0", "0", "0">>,
      <<"7", ".", "7", "2", "5", ".", "8", "4", "4">>,
      <<"2", "0", ".", "5", "8", "6", ",", "5", "0">> }

Amounts ==
    StringsUpTo(AMOUNT_CHARS, MaxAmountLen) \cup AMOUNT_EXAMPLES
        \cup {NOT_FOUND, NA, NO_DOCX, DOC_GENERICO}

InitTotal ==
    /\ x_total \in Amounts
    /\ pesos = <<>>
    /\ IdleMerge /\ IdleExtract /\ IdleClean

CleanTotal ==
    /\ pesos = <<>>
    /\ pesos' = <<clean_total(x_total)>>
    /\ UNCHANGED <<x_total, mergeVars, extractVars, cleanVars>>

NextTotal == CleanTotal

SpecTotal == InitTotal /\ [][NextTotal]_vars

DigitsOf(s) == SelectSeq(s, IsDigit)

Commas(s) == {k \in DOMAIN s : s[k] = ","}

\* digits, dots and commas only, at least one digit, at most one comma
WellFormedAmount(s) ==
    /\ \A k \in DOMAIN s : IsDigit(s[k]) \/ s[k] \in {".", ","}
    /\ DigitsOf(s) # <<>>
    /\ Cardinality(Commas(s)) <= 1

\* number of digits written after the decimal comma
DecimalDigits(s) ==
    IF Commas(s) = {} THEN 0
    ELSE LET c == CHOOSE k \in Commas(s) : TRUE
         IN  Len(DigitsOf(SubSeq(s, c + 1, Len(s))))

\* C9: clean_total never raises; a sentinel and a string that does not parse
\* come back unchanged; a string that parses yields the number its digits
\* spell with the comma as the decimal separator and the dots dropped, an
\* amount with no comma yielding that integer with zero decimal part.
CleanTotalValue ==
    pesos # <<>> =>
        LET out == pesos[1]
        IN  IF x_total \in {NOT_FOUND, NA, NO_DOCX} THEN out = StrValue(x_total)
            ELSE IF WellFormedAmount(x_total)
            THEN /\ out.kind = "float"
                 /\ out.exp <= DecimalDigits(x_total)
                 /\ out.mant * Pow10(DecimalDigits(x_total) - out.exp)
                        = ToInt(DigitsOf(x_total))
                 /\ (Commas(x_total) = {} =>
                        out.exp = 0 /\ out.mant = ToInt(DigitsOf(x_total)))
            ELSE out = StrValue(x_total)

\* C9 witness: the three amounts of the round-trip examples have been parsed
\* ("7.725.844" is shown), and so has a string that does not parse.
CleanTotalWitness ==
    /\ pesos # <<>>
    /\ x_total = <<"7", ".", "7", "2", "5", ".", "8", "4", "4">>
    /\ pesos[1] = Normalize(7725844, 0)

-----------------------------------------------------------------------------
(* extract_all and _try_find on texts: every combination of matching and   *)
(* non-matching patterns that a text can show.                             *)

Options(capture) == {None, Hit(<<capture>>)}

DATE_LONG_OK == Hit(<< <<"1", "4">>, <<"A", "g", "o", "s", "t", "o">>,
                       <<"2", "0", "2", "5">> >>)
DATE_LONG_BAD == Hit(<< <<"3", "2">>, <<"E", "n", "e", "r", "o">>,
                        <<"2", "0", "2", "0">> >>)
DATE_SHORT_OK == Hit(<< <<"1", "0">>, <<"2">>, <<"2", "0">> >>)
DATE_SHORT_BAD == Hit(<< <<"3", "1">>, <<"0", "2">>, <<"2", "0", "2", "1">> >>)

\* a non-empty single-line text always matches the third CLIENT pattern, and
\* the third NUMBER pattern matches only where the first one does
Realisable(t) ==
    /\ (\E f \in FIELDS : \E k \in DOMAIN t[f] : t[f][k].hit) => t.CLIENT[3].hit
    /\ t.NUMBER[3].hit => t.NUMBER[1].hit

MaxDescriptionHits == 2

DescriptionOptions ==
    { d \in Options(<<"D", "1">>) \X Options(<<"D", "2">>)
                \X Options(<<"D", "3">>) \X Options(<<"D", "4">>)
                \X Options(<<"D", "5">>) :
          Cardinality({k \in DOMAIN d : d[k].hit}) <= MaxDescriptionHits }

Texts ==
    { t \in [CLIENT : Options(<<"A">>) \X Options(<<" ", "B">>)
                          \X Options(<<"S", "R", ".", "A", " ", "C", ":">>),
             NUMBER : Options(<<"1">>) \X Options(<<"2">>) \X Options(<<"3">>),
             DATE : {None, DATE_LONG_OK, DATE_LONG_BAD}
                        \X {None, DATE_SHORT_OK, DATE_SHORT_BAD},
             TOTAL : Options(<<"1", ".", "0", "0", "0">>) \X Options(<<"7">>),
             DESCRIPTION : DescriptionOptions] : Realisable(t) }

\* the text of a document that could not be read, or is blank: self.text = ""
EmptyText ==
    [CLIENT |-> <<None, None, None>>, NUMBER |-> <<None, None, None>>,
     DATE |-> <<None, None>>, TOTAL |-> <<None, None>>,
     DESCRIPTION |-> <<None, None, None, None, None>>]

InitExtract ==
    /\ text \in Texts
    /\ locale_es \in BOOLEAN
    /\ record = <<>>
    /\ found = <<>>
    /\ IdleMerge /\ IdleClean /\ IdleTotal

ExtractAll ==
    /\ record = <<>> /\ found = <<>>
    /\ record' = <<extract_all(text)>>
    /\ UNCHANGED <<text, locale_es, found, mergeVars, cleanVars, totalVars>>

TryFind ==
    /\ record = <<>> /\ found = <<>>
    /\ \E field_name \in FIELDS \ {"CLIENT"} :
           found' = <<[field |-> field_name,
                       ret |-> _try_find(text, field_name)]>>
    /\ UNCHANGED <<text, locale_es, record, mergeVars, cleanVars, totalVars>>

NextExtract == ExtractAll \/ TryFind

SpecExtract == InitExtract /\ [][NextExtract]_vars

\* the patterns of a field that match the text
Matching(t, field) == {k \in DOMAIN t[field] : t[field][k].hit}

Lowest(S) == CHOOSE k \in S : \A j \in S : k <= j

\* the field of the record that holds what a field's patterns found
RecordField(field) == IF field = "TOTAL" THEN "PESOS" ELSE field

RECORD_FIELDS ==
    {"CLIENT", "DATE", "NUMBER", "DOLLARS", "PESOS", "EUROS", "DESCRIPTION"}

\* C5 as stated: a field none of whose patterns matches the text is
\* "No encontrado" in the record of extract_all, whichever field it is.
NoMatchIsNotFound ==
    record # <<>> =>
        \A field \in FIELDS :
            Matching(text, field) = {} =>
                record[1][RecordField(field)] = NOT_FOUND

\* C5 amended: extract_all does not raise and returns every field; CLIENT,
\* DATE, NUMBER and PESOS are "No encontrado" when none of the field's patterns
\* matches the text, and DESCRIPTION is then "Documento Genérico (Default)".
NoMatchSentinels ==
    record # <<>> =>
        /\ DOMAIN record[1] = RECORD_FIELDS
        /\ \A field \in FIELDS \ {"DESCRIPTION"} :
               Matching(text, field) = {} =>
                   record[1][RecordField(field)] = NOT_FOUND
        /\ Matching(text, "DESCRIPTION") = {} =>
               record[1].DESCRIPTION = DOC_GENERICO

\* C5 witness: extract_all has run on a non-empty text in which no NUMBER and
\* no DESCRIPTION pattern matches.
NoMatchWitness ==
    /\ record # <<>>
    /\ text.CLIENT[3].hit
    /\ Matching(text, "NUMBER") = {}
    /\ Matching(text, "DESCRIPTION") = {}
    /\ Matching(text, "TOTAL") # {}

\* C6: the rule engine returns the capture, the match and the rule of the
\* lowest-index pattern that matches, later patterns are not used even when
\* the date of the hit then fails to parse, and the not-found triple comes
\* back only when no pattern matches.
FirstMatchWins ==
    /\ found # <<>> =>
           LET f == found[1].field
               r == found[1].ret
               M == Matching(text, f)
           IN  IF M = {}
               THEN r = [result |-> NOT_FOUND, match |-> None,
                         pattern |-> NoPattern]
               ELSE /\ r.pattern = EXTRACTION_RULES[f][Lowest(M)]
                    /\ r.match = text[f][Lowest(M)]
                    /\ r.result = Strip(text[f][Lowest(M)].groups[1])
    /\ record # <<>> =>
           LET MC == Matching(text, "CLIENT")
               MD == Matching(text, "DATE")
           IN  /\ record[1].CLIENT =
                      IF MC = {} THEN NOT_FOUND
                      ELSE CleanClient(text.CLIENT[Lowest(MC)].groups[1])
               /\ text.DATE[1] = DATE_LONG_BAD => record[1].DATE = ERROR_LARGO
               /\ text.DATE[1] = DATE_LONG_OK =>
                      record[1].DATE = <<"1", "4", "-", "0", "8", "-", "2", "5">>
               /\ (text.DATE[1] = None /\ text.DATE[2] = DATE_SHORT_OK) =>
                      record[1].DATE = <<"1", "0", "-", "0", "2", "-", "2", "0">>
               /\ (text.DATE[1] = None /\ text.DATE[2] = DATE_SHORT_BAD) =>
                      record[1].DATE = ERROR_CORTO
               /\ MD = {} <=> record[1].DATE = NOT_FOUND

\* C6 witness: _try_find("DATE") has run on a text in which both date patterns
\* match and the first one's date does not parse.
FirstMatchWitness ==
    /\ found # <<>>
    /\ found[1].field = "DATE"
    /\ text.DATE = <<DATE_LONG_BAD, DATE_SHORT_OK>>
    /\ found[1].ret.pattern.format = "LONG_FORMAT"

-----------------------------------------------------------------------------
(* extract_all on texts that show one date-shaped match *)

\* \d{1,2}
DAYS ==
    { <<"0">>, <<"0", "0">>, <<"1">>, <<"0", "1">>, <<"5">>, <<"0", "5">>,
      <<"9">>, <<"1", "0">>, <<"1", "9">>, <<"2", "0">>, <<"2", "8">>,
      <<"2", "9">>, <<"3", "0">>, <<"3", "1">>, <<"3", "2">>, <<"3", "9">>,
      <<"4", "0">>, <<"6", "0">>, <<"9", "9">> }

SHORT_MONTHS ==
    { <<"0">>, <<"0", "0">>, <<"1">>, <<"0", "1">>, <<"2">>, <<"0", "2">>,
      <<"4">>, <<"9">>, <<"0", "9">>, <<"1", "0">>, <<"1", "2">>,
      <<"1", "3">>, <<"2", "0">>, <<"9", "9">> }

\* \d{2,4}
SHORT_YEARS ==
    { <<"0", "0">>, <<"2", "1">>, <<"2", "4">>, <<"1", "2", "3">>,
      <<"0", "0", "0", "0">>, <<"0", "0", "0", "1">>, <<"1", "9", "0", "0">>,
      <<"2", "0", "0", "0">>, <<"2", "0", "2", "3">> }

\* \w+
LONG_MONTHS ==
    {MONTHS_ES[k] : k \in DOMAIN MONTHS_ES}
        \cup { <<"A", "g", "o", "s", "t", "o">>, <<"F", "E", "B", "R", "E", "R", "O">>,
               <<"A", "u", "g", "u", "s", "t">>, <<"m", "a", "y">>,
               <<"F", "o", "o">>, <<"s", "e", "t", "i", "e", "m", "b", "r", "e">> }

\* \d{4}
LONG_YEARS ==
    { <<"0", "0", "0", "0">>, <<"1", "9", "0", "0">>, <<"2", "0", "0", "0">>,
      <<"2", "0", "2", "3">>, <<"2", "0", "2", "4">> }

TextWithDate(date) ==
    [EmptyText EXCEPT !.CLIENT = <<None, None, Hit(<< <<"A">> >>)>>,
                      !.DATE = date]

DateTexts ==
    {TextWithDate(<<Hit(<<d, m, y>>), None>>) :
         d \in DAYS, m \in LONG_MONTHS, y \in LONG_YEARS}
    \cup {TextWithDate(<<None, Hit(<<d, m, y>>)>>) :
              d \in DAYS, m \in SHORT_MONTHS, y \in SHORT_YEARS}
    \cup {TextWithDate(<<None, None>>)}

InitDate ==
    /\ text \in DateTexts
    /\ locale_es \in BOOLEAN
    /\ record = <<>>
    /\ found = <<>>
    /\ IdleMerge /\ IdleClean /\ IdleTotal

NextDate == ExtractAll

SpecDate == InitDate /\ [][NextDate]_vars

MONTH_LENGTHS == <<31, 28, 31, 30, 31, 30, 31, 31, 30, 31, 30, 31>>

\* day d of month m of year y is a date of the calendar
CalendarDate(d, m, y) ==
    /\ y >= 1
    /\ m \in 1..12
    /\ d >= 1
    /\ \/ d <= MONTH_LENGTHS[m]
       \/ /\ m = 2 /\ d = 29
          /\ y % 4 = 0
          /\ (y % 100 = 0 => y % 400 = 0)

Canonical(d, m, y) ==
    TwoDigits(d) \o <<"-">> \o TwoDigits(m) \o <<"-">> \o TwoDigits(y % 100)

SpanishMonth(name) ==
    IF \E k \in 1..12 : MONTHS_ES[k] = Lower(name)
    THEN CHOOSE k \in 1..12 : MONTHS_ES[k] = Lower(name)
    ELSE 0

EnglishMonth(name) ==
    IF \E k \in 1..12 : Lower(MONTHS_EN[k]) = Lower(name)
    THEN CHOOSE k \in 1..12 : Lower(MONTHS_EN[k]) = Lower(name)
    ELSE 0

\* the year a short-form match names: a two-digit year is read as 20YY
ShortYear(y) == IF Len(y) = 2 THEN 2000 + ToInt(y) ELSE ToInt(y)

\* what C8 asks of the DATE of the record, for the years in the set years of
\* digit counts of a short-form match
DateNormalized(year_lengths) ==
    record # <<>> =>
        LET long  == text.DATE[1]
            short == text.DATE[2]
            date  == record[1].DATE
        IN  /\ long.hit =>
                   LET d == ToInt(long.groups[1])
                       y == ToInt(long.groups[3])
                       es == SpanishMonth(long.groups[2])
                       en == EnglishMonth(long.groups[2])
                   IN  IF es # 0 /\ CalendarDate(d, es, y)
                       THEN date = Canonical(d, es, y)
                       ELSE \/ date = ERROR_LARGO
                            \/ /\ en # 0 /\ CalendarDate(d, en, y)
                               /\ date = Canonical(d, en, y)
            /\ (~long.hit /\ short.hit) =>
                   LET d == ToInt(short.groups[1])
                       m == ToInt(short.groups[2])
                       y == ShortYear(short.groups[3])
                   IN  IF /\ CalendarDate(d, m, y)
                          /\ Len(short.groups[3]) \in year_lengths
                       THEN date = Canonical(d, m, y)
                       ELSE date = ERROR_CORTO
            /\ date = NOT_FOUND <=> (~long.hit /\ ~short.hit)

\* C8 as stated: every date-shaped match that names a date of the calendar
\* gives the canonical DD-MM-YY of that date, every other one a format-error
\* sentinel, and DATE is "No encontrado" only when no date pattern matched.
DateOfAnyValidMatch == DateNormalized({2, 3, 4})

\* C8 amended: as stated, for a short-form year of two or four digits; a
\* short-form match with a three-digit year gives the format-error sentinel.
DateOfValidMatch == DateNormalized({2, 4})

\* C8 witness: the short form "29-2-24" has given "29-02-24".
DateWitness ==
    /\ record # <<>>
    /\ text.DATE[2] = Hit(<< <<"2", "9">>, <<"2">>, <<"2", "4">> >>)
    /\ record[1].DATE = <<"2", "9", "-", "0", "2", "-", "2", "4">>

-----------------------------------------------------------------------------
(* Documents of a consolidation run.  An uploaded PDF is its file name,    *)
(* whether pdfplumber can read it, and the text read from it; an uploaded  *)
(* DOCX is its file name, whether python-docx can read it, and the match   *)
(* of QUOTE_PATTERN in its text.                                           *)

\* FacturaExtractor.__init__: the text read, "" when reading raised
FacturaExtractor_init(pdf_file) ==
    IF pdf_file.readable THEN pdf_file.text ELSE EmptyText

\* extract_data_from_pdf: __init__ lets no exception out, so that the handler
\* that builds the "N/A" record has nothing to catch
extract_data_from_pdf(pdf_file) ==
    extract_all(FacturaExtractor_init(pdf_file))

\* re.sub(r"^CB", "", quotation_number, flags=re.IGNORECASE)
StripCB(s) ==
    IF LitAt(s, 1, <<"C", "B">>) # 0 THEN SubSeq(s, 3, Len(s)) ELSE s

\* %y: \d\d, read as 20YY up to 68 and as 19YY from 69
DirectiveYear2(s) ==
    IF Len(s) = 2 /\ AllDigits(s)
    THEN (IF ToInt(s) <= 68 THEN 2000 + ToInt(s) ELSE 1900 + ToInt(s))
    ELSE -1

\* the places of the two separators of a \d{1,2}[\/\-]\d{1,2}[\/\-]\d{2,4}
Separators(date_raw) == {k \in DOMAIN date_raw : ~IsDigit(date_raw[k])}

\* the three strptime attempts of extract_data_from_docx, in order
FormatQuoteDate(date_raw) ==
    LET s1 == Lowest(Separators(date_raw))
        s2 == Lowest(Separators(date_raw) \ {s1})
        day   == SubSeq(date_raw, 1, s1 - 1)
        month == SubSeq(date_raw, s1 + 1, s2 - 1)
        year  == SubSeq(date_raw, s2 + 1, Len(date_raw))
        seps  == <<date_raw[s1], date_raw[s2]>>
        long_year  == MakeDate(DirectiveDay(day), DirectiveMonth(month),
                               DirectiveYear(year))
        short_year == MakeDate(DirectiveDay(day), DirectiveMonth(month),
                               DirectiveYear2(year))
    IN  IF seps = <<"/", "/">> /\ long_year.ok THEN strftime_dmy(long_year)
        ELSE IF seps = <<"-", "-">> /\ long_year.ok THEN strftime_dmy(long_year)
        ELSE IF seps = <<"/", "/">> /\ short_year.ok
        THEN strftime_dmy(short_year)
        ELSE date_raw

\* extract_data_from_docx: a document that cannot be read raises inside the
\* function's own handler (it reads docx_file.name, which the BytesIO that
\* main passes does not have), so the call raises
extract_data_from_docx(docx_file) ==
    IF ~docx_file.readable
    THEN [raised |-> TRUE,
          data |-> [QUOTATION_NUMBER |-> NOT_FOUND, QUOTATION_DATE |-> NOT_FOUND]]
    ELSE IF docx_file.quote.hit
    THEN [raised |-> FALSE,
          data |-> [QUOTATION_NUMBER |->
                        Strip(StripCB(Strip(docx_file.quote.groups[1]))),
                    QUOTATION_DATE |->
                        FormatQuoteDate(Strip(docx_file.quote.groups[2]))]]
    ELSE [raised |-> FALSE,
          data |-> [QUOTATION_NUMBER |-> NOT_FOUND, QUOTATION_DATE |-> NOT_FOUND]]

-----------------------------------------------------------------------------
(* main: the consolidation run *)

RECURSIVE IntToStr(_)
IntToStr(n) ==
    IF n < 10 THEN <<DIGITS[n + 1]>>
    ELSE IntToStr(n \div 10) \o <<DIGITS[(n % 10) + 1]>>

\* a single suffix, taken without looking whether it is in use
suffix_unchecked(merge_key, count, data) ==
    merge_key \o <<"_">> \o IntToStr(count)

\* the while loop that looks for a key not in all_data
RECURSIVE suffix_from(_, _, _)
suffix_from(merge_key, count, data) ==
    IF (merge_key \o <<"_">> \o IntToStr(count)) \in DOMAIN data
    THEN suffix_from(merge_key, count + 1, data)
    ELSE merge_key \o <<"_">> \o IntToStr(count)

unique_merge_key_no_suffix(merge_key, data) == merge_key

unique_merge_key(merge_key, data) ==
    IF merge_key \in DOMAIN data THEN suffix_from(merge_key, 1, data)
    ELSE merge_key

placeholder_quote_data ==
    [QUOTATION_NUMBER |-> NO_DOCX, QUOTATION_DATE |-> NO_DOCX]

\* dict.update, and {**d, **other}
dict_update(d, other) ==
    [f \in DOMAIN d \cup DOMAIN other |->
        IF f \in DOMAIN other THEN other[f] ELSE d[f]]

update_row_and_date(row, quote_data) ==
    [dict_update(row, quote_data) EXCEPT !.DATE = quote_data.QUOTATION_DATE]

\* all_data[pdf_key_to_update].update(quote_result)
update_row(row, quote_data) == dict_update(row, quote_data)

\* all_data[key] = value
dict_set(data, key, value) ==
    [k \in DOMAIN data \cup {key} |-> IF k = key THEN value ELSE data[k]]

Min(a, b) == IF a <= b THEN a ELSE b

num_docs_to_process == Min(Len(uploaded_docs), Len(pdf_client_keys))

pdf_key_next(i) ==
    pdf_client_keys[IF i < Len(pdf_client_keys) THEN i + 1 ELSE 1]

pdf_key_to_update(i) == pdf_client_keys[i]

\* one turn of the loop over uploaded_pdfs
ProcessPdf ==
    /\ phase = "pdf"
    /\ idx <= Len(uploaded_pdfs)
    /\ LET uploaded_pdf == uploaded_pdfs[idx]
           result       == extract_data_from_pdf(uploaded_pdf)
           merge_key    == Strip(Upper(result.CLIENT))
       IN  IF merge_key # Upper(NOT_FOUND) /\ merge_key # <<>>
           THEN LET key == unique_merge_key(merge_key, all_data)
                IN  /\ pdf_client_keys' = Append(pdf_client_keys, key)
                    /\ all_data' =
                           dict_set(all_data, key,
                               dict_update(
                                   dict_update(result, placeholder_quote_data),
                                   [FILE_NAME |-> uploaded_pdf.name]))
           ELSE UNCHANGED <<all_data, pdf_client_keys>>
    /\ IF idx = Len(uploaded_pdfs)
       THEN phase' = "docx" /\ idx' = 1
       ELSE phase' = "pdf" /\ idx' = idx + 1
    /\ UNCHANGED <<uploaded_pdfs, uploaded_docs, df, extractVars, cleanVars,
                   totalVars>>

\* one turn of the loop over the first num_docs_to_process uploaded_docs
ProcessDocx ==
    /\ phase = "docx"
    /\ idx <= num_docs_to_process
    /\ LET uploaded_doc == uploaded_docs[idx]
           key          == pdf_key_to_update(idx)
           quote_result == extract_data_from_docx(uploaded_doc)
       IN  IF ~quote_result.raised /\ key \in DOMAIN all_data
           THEN all_data' =
                    [all_data EXCEPT
                         ![key] = update_row(@, quote_result.data)]
           ELSE UNCHANGED all_data
    /\ idx' = idx + 1
    /\ UNCHANGED <<uploaded_pdfs, uploaded_docs, pdf_client_keys, phase, df,
                   extractVars, cleanVars, totalVars>>

\* the DataFrame: the records in key order, the CLIENT column cut at the
\* first "_", the PESOS column through clean_total
Consolidate ==
    /\ phase = "docx"
    /\ idx > num_docs_to_process
    /\ df' = [k \in 1..Len(pdf_client_keys) |->
                 LET row == all_data[pdf_client_keys[k]]
                 IN  [row EXCEPT !.CLIENT = SplitFirst(@, "_"),
                                 !.PESOS = clean_total(@)]]
    /\ phase' = "done"
    /\ UNCHANGED <<uploaded_pdfs, uploaded_docs, all_data, pdf_client_keys,
                   idx, extractVars, cleanVars, totalVars>>

MaxPdfs == 3
MaxDocs == 2

TextOfClient(capture) ==
    [EmptyText EXCEPT
        !.CLIENT = <<Hit(<<capture>>), None, Hit(<<capture>>)>>,
        !.NUMBER = <<Hit(<< <<"4", "2">> >>), None, None>>,
        !.DATE = <<None, DATE_SHORT_OK>>,
        !.TOTAL = <<Hit(<< <<"1", ".", "0", "0", "0">> >>), None>>]

\* the contents of the uploaded PDFs: clients "A", "a", "A_1" and "B", and a
\* file pdfplumber cannot read
PDF_POOL ==
    { [readable |-> TRUE, text |-> TextOfClient(<<"A">>)],
      [readable |-> TRUE, text |-> TextOfClient(<<"a">>)],
      [readable |-> TRUE, text |-> TextOfClient(<<"A", "_", "1">>)],
      [readable |-> TRUE, text |-> TextOfClient(<<"B">>)],
      [readable |-> FALSE, text |-> EmptyText] }

\* the contents of the uploaded DOCXs: "COTIZACIÓN # CB123, 10/02/2020",
\* a text with no quotation, and a file python-docx cannot read
DOCX_POOL ==
    { [readable |-> TRUE,
       quote |-> Hit(<< <<"C", "B", "1", "2", "3">>,
                        <<"1", "0", "/", "0", "2", "/", "2", "0", "2", "0">> >>)],
      [readable |-> TRUE, quote |-> None],
      [readable |-> FALSE, quote |-> None] }

\* the uploads of n files with contents from pool, named by their position
Uploads(pool, n) ==
    { [k \in 1..n |-> dict_update(c[k], [name |-> k])] : c \in [1..n -> pool] }

Init ==
    /\ uploaded_pdfs \in UNION {Uploads(PDF_POOL, n) : n \in 0..MaxPdfs}
    /\ uploaded_docs \in UNION {Uploads(DOCX_POOL, n) : n \in 0..MaxDocs}
    /\ ~(uploaded_pdfs = <<>> /\ uploaded_docs = <<>>)
    /\ all_data = <<>>
    /\ pdf_client_keys = <<>>
    /\ phase = IF uploaded_pdfs = <<>> THEN "docx" ELSE "pdf"
    /\ idx = 1
    /\ df = <<>>
    /\ IdleExtract /\ IdleClean /\ IdleTotal

Next == ProcessPdf \/ ProcessDocx \/ Consolidate

Spec == Init /\ [][Next]_vars

-----------------------------------------------------------------------------
(* Properties of the consolidation run *)

QUOTE_FIELDS == {"QUOTATION_NUMBER", "QUOTATION_DATE"}

\* the quotation fields a record shows: those of a quotation when one is
\* given, the placeholders otherwise
ShowsQuote(row, quote) ==
    /\ row.QUOTATION_NUMBER = quote.QUOTATION_NUMBER
    /\ row.QUOTATION_DATE = quote.QUOTATION_DATE

\* C1: after the run, the record registered i-th carries the quotation number
\* and date extracted from the i-th secondary document, for every i up to
\* min(secondary count, registered count) whose extraction did not raise, and
\* no record carries those of a document at another position.
PositionalMerge ==
    phase = "done" =>
        \A i \in 1..Len(pdf_client_keys) :
            LET extracted == extract_data_from_docx(uploaded_docs[i])
                quote == IF i <= Len(uploaded_docs) /\ ~extracted.raised
                         THEN extracted.data
                         ELSE placeholder_quote_data
            IN  /\ ShowsQuote(all_data[pdf_client_keys[i]], quote)
                /\ ShowsQuote(df[i], quote)

\* C1 witness: three primary documents (A, B, A) and two secondary documents,
\* the first without a quotation and the second with one: row 1 shows "No
\* encontrado", row 2 shows quotation 123 and row 3 the placeholder.
PositionalMergeWitness ==
    /\ phase = "done"
    /\ pdf_client_keys = << <<"A">>, <<"B">>, <<"A", "_", "1">> >>
    /\ Len(uploaded_docs) = 2
    /\ df[1].QUOTATION_NUMBER = NOT_FOUND
    /\ df[2].QUOTATION_NUMBER = <<"1", "2", "3">>
    /\ df[2].QUOTATION_DATE = <<"1", "0", "-", "0", "2", "-", "2", "0">>
    /\ df[3].QUOTATION_NUMBER = NO_DOCX

\* the row of a document: all "N/A", or as extracted from its text
IsNARow(row, pdf) ==
    /\ row.FILE_NAME = pdf.name
    /\ row.DATE = NA /\ row.NUMBER = NA /\ row.DESCRIPTION = NA
    /\ row.PESOS = StrValue(NA)

IsNormalRow(row, pdf) ==
    /\ row.FILE_NAME = pdf.name
    /\ row.NUMBER = extract_all(pdf.text).NUMBER
    /\ row.DATE = extract_all(pdf.text).DATE

\* C2: a primary document whose text extraction fails does not abort the
\* batch: every readable document emits its normal row, and the failed one
\* emits a row of "N/A" with its own FILE_NAME.
UnreadableEmitsNARow ==
    phase = "done" =>
        \A j \in DOMAIN uploaded_pdfs :
            \E k \in DOMAIN df :
                IF uploaded_pdfs[j].readable
                THEN IsNormalRow(df[k], uploaded_pdfs[j])
                ELSE IsNARow(df[k], uploaded_pdfs[j])

\* a document whose client was found: its cleaned client is neither empty
\* nor the "not found" sentinel
ClientFound(pdf) ==
    LET client == IF pdf.readable
                  THEN _find_client_in_text(pdf.text, EXTRACTION_RULES)
                  ELSE NOT_FOUND
    IN  client # <<>> /\ Lower(client) # Lower(NOT_FOUND)

RECURSIVE FoundNames(_)
FoundNames(pdfs) ==
    IF pdfs = <<>> THEN <<>>
    ELSE (IF ClientFound(Head(pdfs)) THEN <<Head(pdfs).name>> ELSE <<>>)
         \o FoundNames(Tail(pdfs))

\* the uploaded PDFs the loop has been through
Processed ==
    IF phase = "pdf" THEN SubSeq(uploaded_pdfs, 1, idx - 1) ELSE uploaded_pdfs

\* C3: the registered records, and in the end the emitted rows, are exactly
\* the primary documents whose client was found, one each, in upload order; a
\* document whose client was not found takes no position in pdf_client_keys.
RowsAreFoundPdfs ==
    LET so_far == FoundNames(Processed)
    IN  /\ Len(pdf_client_keys) = Len(so_far)
        /\ \A k \in DOMAIN pdf_client_keys :
               /\ pdf_client_keys[k] \in DOMAIN all_data
               /\ all_data[pdf_client_keys[k]].FILE_NAME = so_far[k]
        /\ phase = "done" =>
               /\ Len(df) = Len(so_far)
               /\ \A k \in DOMAIN df : df[k].FILE_NAME = so_far[k]

\* C3 witness: of three primary documents the second's client was not found;
\* the rows are documents 1 and 3, and the one secondary document that
\* attached to row 2 is paired with document 3.
RowsWitness ==
    /\ phase = "done"
    /\ Len(uploaded_pdfs) = 3
    /\ ~ClientFound(uploaded_pdfs[2])
    /\ Len(df) = 2
    /\ df[1].FILE_NAME = 1 /\ df[2].FILE_NAME = 3
    /\ df[1].CLIENT = df[2].CLIENT
    /\ Len(uploaded_docs) = 2
    /\ df[2].QUOTATION_NUMBER = <<"1", "2", "3">>

\* C4: the CLIENT a row displays is the cleaned client extracted from the
\* row's primary document; the strip at emission changes no client name that
\* carries no disambiguation suffix (the suffix is put on the key only).
DisplayedClientIsCleanedClient ==
    phase = "done" =>
        \A k \in DOMAIN df :
            \E j \in DOMAIN uploaded_pdfs :
                /\ uploaded_pdfs[j].name = df[k].FILE_NAME
                /\ df[k].CLIENT = extract_data_from_pdf(uploaded_pdfs[j]).CLIENT

\* what a step of secondary ingestion and emission may change
DocxFrame ==
    phase = "docx" =>
        /\ pdf_client_keys' = pdf_client_keys
        /\ DOMAIN all_data' = DOMAIN all_data
        /\ \A key \in DOMAIN all_data :
               \A f \in DOMAIN all_data[key] \ QUOTE_FIELDS :
                   /\ DOMAIN all_data'[key] = DOMAIN all_data[key]
                   /\ all_data'[key][f] = all_data[key][f]
        /\ \A i \in DOMAIN pdf_client_keys :
               (i # idx \/ idx > num_docs_to_process) =>
                   all_data'[pdf_client_keys[i]] = all_data[pdf_client_keys[i]]
        /\ \A i \in DOMAIN pdf_client_keys :
               i > num_docs_to_process =>
                   /\ ShowsQuote(all_data'[pdf_client_keys[i]],
                                 placeholder_quote_data)
                   /\ phase' = "done" =>
                          ShowsQuote(df'[i], placeholder_quote_data)

\* C10: secondary ingestion changes nothing but the two quotation fields of
\* the first min(secondary count, registered count) records: every other
\* field of every record stays, the records from that minimum on keep "No DOCX
\* adjunto" in both, and the documents beyond the registered count alter no
\* record.
SecondaryFrame == [][DocxFrame]_vars

\* C10 witness: two secondary documents for one registered record: the first
\* has been merged into it and the second has altered nothing.
SecondaryFrameWitness ==
    /\ phase = "done"
    /\ Len(uploaded_docs) = 2
    /\ Len(pdf_client_keys) = 1
    /\ df[1].QUOTATION_NUMBER = <<"1", "2", "3">>
    /\ df[1].NUMBER = <<"4", "2">>

\* the key made of a client and the suffix "_n"
Suffixed(merge_key, n) == merge_key \o <<"_">> \o IntToStr(n)

\* the registered keys are pairwise different and are the keys of all_data
KeysMatchRecords ==
    /\ \A i, j \in DOMAIN pdf_client_keys :
           pdf_client_keys[i] = pdf_client_keys[j] => i = j
    /\ {pdf_client_keys[i] : i \in DOMAIN pdf_client_keys} = DOMAIN all_data

\* a step of primary ingestion on a document whose client was found appends
\* one key: the uppercased client if it is free, otherwise the client with
\* the smallest suffix n >= 1 that is free; every record registered before
\* stays as it was
RegistersFreshKey ==
    (phase = "pdf" /\ ClientFound(uploaded_pdfs[idx])) =>
        LET merge_key ==
                Strip(Upper(extract_data_from_pdf(uploaded_pdfs[idx]).CLIENT))
            key == pdf_client_keys'[Len(pdf_client_keys')]
        IN  /\ Len(pdf_client_keys') = Len(pdf_client_keys) + 1
            /\ SubSeq(pdf_client_keys', 1, Len(pdf_client_keys))
                   = pdf_client_keys
            /\ key \notin DOMAIN all_data
            /\ IF merge_key \notin DOMAIN all_data
               THEN key = merge_key
               ELSE \E n \in 1..(Len(pdf_client_keys) + 1) :
                        /\ key = Suffixed(merge_key, n)
                        /\ \A m \in 1..(n - 1) :
                               Suffixed(merge_key, m) \in DOMAIN all_data
            /\ DOMAIN all_data' = DOMAIN all_data \cup {key}
            /\ \A k \in DOMAIN all_data : all_data'[k] = all_data[k]
            /\ all_data'[key].FILE_NAME = uploaded_pdfs[idx].name

\* C11: throughout the run the registered keys have no duplicates and are
\* exactly the keys of the record mapping, so the merge and the emission never
\* look up a missing key; a primary document whose uppercased client is
\* already a key is registered under the client followed by "_n" for the
\* smallest n >= 1 not in use, and no record registered before is overwritten.
UniqueKeys == [](KeysMatchRecords) /\ [][RegistersFreshKey]_vars

\* C11 witness: the clients "A", "A_1" and "A" again: the third document
\* collides with "A", finds "A_1" taken by the second and is registered as
\* "A_2", and the three records are emitted.
UniqueKeysWitness ==
    /\ phase = "done"
    /\ pdf_client_keys = << <<"A">>, <<"A", "_", "1">>, <<"A", "_", "2">> >>
    /\ all_data[<<"A", "_", "1">>].FILE_NAME = 2
    /\ all_data[<<"A", "_", "2">>].FILE_NAME = 3
    /\ Len(df) = 3

====
